---- MODULE Spec2Model ----
(***************************************************************************)
(* Instagram handle discovery and confidence scoring of rx-media-manager.  *)
(*                                                                         *)
(* Spec      one finder (RestaurantInstagramFinder) processing rows one    *)
(*           after the other with _process_single_row: the adapter loop    *)
(*           of find_instagram_handle, the simplified-name fallback,       *)
(*           _calculate_confidence_score with the enhanced verification    *)
(*           pass, and the AI blending.                                    *)
(* SpecFlags add_review_flags (both copies) over small batches of rows.    *)
(* SpecVerify   _enhanced_verification called on its arguments.            *)
(* SpecRescore  _calculate_confidence_score called repeatedly on one       *)
(*              finder, with Firecrawl searches in between.                *)
(* SpecCooldown the dispatch loop of process_dataset_extract, its pool     *)
(*              and the rate-limit cooldown deadlines.                     *)
(* SpecExtract  the handle each adapter extracts from an LLM reply or URL. *)
(* SpecBatch    find_instagram_handles_bulk and process_dataset_extract:   *)
(*              submission, pool threads, collection, user interrupt.      *)
(* SpecGate     the rate gate of firecrawl_search_restaurant_instagram_sync *)
(*              with its lazily created lock, called by several threads.   *)
(*                                                                         *)
(* Scores are fixed-point numbers in thousandths of a point, rounded down  *)
(* (79957 = 79.957).  AI confidences are hundredths (80 = 0.80).  Names,   *)
(* handles and business ids are sequences of one-character strings, all    *)
(* in lower case unless a claim is about case.                             *)
(*                                                                         *)
(* The settings fields use_ai_verification, ai_verification_min_confidence *)
(* are read by web_search.py as configuration; they are modelled as        *)
(* configuration values chosen at start.                                   *)
(***************************************************************************)
EXTENDS Integers, Sequences, FiniteSets, TLC

VARIABLES
    cfg,        \* finder flags and settings read by the finder
    vdata,      \* self._last_validation_data (exists = FALSE while the attribute is not set)
    row,        \* the input row being processed: name and address
    pc,         \* position inside _process_single_row
    idx,        \* index of the next strategy to invoke (1-based)
    calls,      \* strategies invoked so far by this find_instagram_handle call
    verify,     \* the verification made on the most recent candidate
    handle,     \* value returned by find_instagram_handle (NoHandle for None)
    via,        \* which loop returned the handle
    raised,     \* TRUE once an exception has escaped find_instagram_handle
    scoring,    \* what _calculate_confidence_score was given, saw and returned
    aiCall,     \* the LLM check made in _process_single_row
    out,        \* the row returned by _process_single_row
    batch,      \* add_review_flags: the result rows
    reviewE,    \* add_review_flags (extract runner): review column
    reviewG,    \* add_review_flags (golden runner): review column
    inp,        \* arguments and fetch responses of a direct scoring call
    res,        \* what the direct scoring calls returned, in call order
    searches,   \* Firecrawl searches made on the finder between those calls
    now,        \* time.time(), in ticks
    cooldown,   \* _OPENAI_COOLDOWN_UNTIL and _FIRECRAWL_COOLDOWN_UNTIL
    disp,       \* the dispatch loop of process_dataset_extract
    task,       \* the per-target tasks handed to the pool
    run,        \* a batch run: which runner, its options, the main thread's position
    work,       \* the futures of a batch run, one per input row
    results,    \* the results list of a batch run
    stored,     \* what a batch run has written: the JSONL stream and the latest snapshot
    gate,       \* the Firecrawl rate gate: _fc_thread_lock, _last_fc_call_sync, the clock
    thr         \* the threads calling firecrawl_search_restaurant_instagram_sync

scoreVars == <<inp, res, searches>>
poolVars == <<now, cooldown, disp, task>>
runVars == <<run, work, results, stored>>
gateVars == <<gate, thr>>
auxVars == <<scoreVars, poolVars, runVars, gateVars>>

vars == <<cfg, vdata, row, pc, idx, calls, verify, handle, via,
          raised, scoring, aiCall, out, batch, reviewE, reviewG, auxVars>>

findVars == <<idx, calls, verify, handle, via, raised>>
flagVars == <<batch, reviewE, reviewG>>


(***************************************************************************)
(* Strings as sequences of characters                                      *)
(***************************************************************************)
\* str.strip(): drop leading and trailing blanks
RECURSIVE LStrip(_)
LStrip(s) == IF s # <<>> /\ Head(s) = " " THEN LStrip(Tail(s)) ELSE s

RECURSIVE RStrip(_)
RStrip(s) ==
    IF s # <<>> /\ s[Len(s)] = " " THEN RStrip(SubSeq(s, 1, Len(s) - 1)) ELSE s

Strip(s) == RStrip(LStrip(s))

\* s.split('(')[0]: everything before the first '('
RECURSIVE BeforeParen(_)
BeforeParen(s) ==
    IF s = <<>> \/ Head(s) = "(" THEN <<>>
    ELSE <<Head(s)>> \o BeforeParen(Tail(s))

\* s.split(): the maximal runs of non-blank characters
RECURSIVE SplitWords(_, _)
SplitWords(s, cur) ==
    IF s = <<>> THEN (IF cur = <<>> THEN <<>> ELSE <<cur>>)
    ELSE IF Head(s) = " "
         THEN (IF cur = <<>> THEN <<>> ELSE <<cur>>) \o SplitWords(Tail(s), <<>>)
         ELSE SplitWords(Tail(s), Append(cur, Head(s)))

\* [word for word in name.split() if len(word) > 2]
NameWords(name) == SelectSeq(SplitWords(name, <<>>), LAMBDA w : Len(w) > 2)

\* simple_name = restaurant_name.split('(')[0].strip()
SimpleName(name) == Strip(BeforeParen(name))

\* simple_name != restaurant_name and len(simple_name) > 3
FallbackApplies(name) == SimpleName(name) # name /\ Len(SimpleName(name)) > 3

(***************************************************************************)
(* Inputs                                                                  *)
(***************************************************************************)
\* restaurant names: "blue ribbon sushi", "joes (mgh)", "jo ("
BlueRibbonSushi ==
    <<"b","l","u","e"," ","r","i","b","b","o","n"," ","s","u","s","h","i">>
JoesMgh == <<"j","o","e","s"," ","(","m","g","h",")">>
JoParen == <<"j","o"," ","(">>

Names == {BlueRibbonSushi, JoesMgh, JoParen}

\* handles the strategies can come back with:
\* "blueribbonsushi", "blueribbsusheats", "joes_official", "j._._._x"
H_blueribbonsushi == <<"b","l","u","e","r","i","b","b","o","n","s","u","s","h","i">>
H_blueribbsusheats ==
    <<"b","l","u","e","r","i","b","b","s","u","s","h","e","a","t","s">>
H_joes_official == <<"j","o","e","s","_","o","f","f","i","c","i","a","l">>
H_dotted == <<"j",".","_",".","_",".","_","x">>

Handles == {H_blueribbonsushi, H_blueribbsusheats, H_joes_official, H_dotted}

\* find_instagram_handle returning None
NoHandle == <<>>

\* w in s (substring test)
Contains(s, w) ==
    \E i \in 1..(Len(s) - Len(w) + 1) : SubSeq(s, i, i + Len(w) - 1) = w

\* sum(1 for word in words if word in s)
CountContained(words, s) ==
    Cardinality({i \in 1..Len(words) : Contains(s, words[i])})

\* s with every occurrence of pat removed, left to right: s.replace(pat, '')
RECURSIVE RemoveAll(_, _)
RemoveAll(s, pat) ==
    IF Len(s) < Len(pat) THEN s
    ELSE IF SubSeq(s, 1, Len(pat)) = pat
         THEN RemoveAll(SubSeq(s, Len(pat) + 1, Len(s)), pat)
         ELSE <<Head(s)>> \o RemoveAll(Tail(s), pat)

\* name_words of _analyze_handle_pattern
PatternWords(name) ==
    LET a == RemoveAll(name, <<"'">>)
        b == RemoveAll(a, <<"r","e","s","t","a","u","r","a","n","t">>)
        c == RemoveAll(b, <<"k","i","t","c","h","e","n">>)
        d == RemoveAll(c, <<"c","a","f","e">>)
    IN NameWords(Strip(d))

\* meaningful_words of _check_bio_content
MeaningfulWords(name) ==
    SelectSeq(NameWords(RemoveAll(name, <<"'">>)),
              LAMBDA w : w \notin { <<"t","h","e">>, <<"a","n","d">>,
                                    <<"r","e","s","t","a","u","r","a","n","t">>,
                                    <<"k","i","t","c","h","e","n">> })

\* what the finder reads off each restaurant name, computed once per name
NameFacts ==
    [n \in Names |->
        [words |-> Len(NameWords(n)),
         pattern |-> Len(PatternWords(n)),
         meaningful |-> Len(MeaningfulWords(n)),
         simple |-> SimpleName(n),
         fallback |-> FallbackApplies(n)]]

\* difflib.SequenceMatcher(None, handle_clean, name_clean).ratio() as the
\* fraction 2*M/T it is computed from (M matching characters, T total length)
SimilarityRatio(h, n) ==
    CASE n = BlueRibbonSushi /\ h = H_blueribbonsushi  -> <<30, 30>>
      [] n = BlueRibbonSushi /\ h = H_blueribbsusheats -> <<24, 31>>
      [] n = BlueRibbonSushi /\ h = H_joes_official    -> <<6, 27>>
      [] n = BlueRibbonSushi /\ h = H_dotted           -> <<0, 17>>
      [] n = JoesMgh /\ h = H_blueribbonsushi  -> <<6, 24>>
      [] n = JoesMgh /\ h = H_blueribbsusheats -> <<6, 25>>
      [] n = JoesMgh /\ h = H_joes_official    -> <<8, 21>>
      [] n = JoesMgh /\ h = H_dotted           -> <<2, 11>>
      [] n = JoParen /\ h = H_blueribbonsushi  -> <<2, 18>>
      [] n = JoParen /\ h = H_blueribbsusheats -> <<0, 19>>
      [] n = JoParen /\ h = H_joes_official    -> <<4, 15>>
      [] n = JoParen /\ h = H_dotted           -> <<2, 5>>

spam_patterns ==
    { <<"o","f","f","i","c","i","a","l">>, <<"r","e","a","l">>,
      <<"a","u","t","h","e","n","t","i","c">>, <<"1","2","3">>,
      <<"0","0","0">>, <<"x","x","x">> }

location_tokens ==
    { <<"b","o","s","t","o","n">>, <<"m","a">>,
      <<"c","a","m","b","r","i","d","g","e">>, <<"b","e","a","c","o","n">>,
      <<"a","l","l","s","t","o","n">> }

suspicious_patterns ==
    { <<"_","o","f","f","i","c","i","a","l">>, <<"_","r","e","a","l">>,
      <<"_","a","u","t","h","e","n","t","i","c">> }

\* what the scoring functions read off a handle for a restaurant name,
\* computed once per pair:
\*   lenOK   3 <= len(handle) <= 30
\*   special number of '.' and '_' characters
\*   spam    contains one of the spam patterns
\*   k       name words (longer than 2) contained in the handle
\*   ratio   the similarity ratio
\*   pm      pattern-analysis words contained in the handle
\*   loc     contains one of the location tokens
\*   susp    contains _official, _real or _authentic
HandleFacts ==
    [n \in Names |-> [h \in Handles |->
        [lenOK |-> Len(h) >= 3 /\ Len(h) <= 30,
         special |-> Cardinality({i \in 1..Len(h) : h[i] \in {".", "_"}}),
         spam |-> \E p \in spam_patterns : Contains(h, p),
         k |-> CountContained(NameWords(n), h),
         ratio |-> SimilarityRatio(h, n),
         pm |-> CountContained(PatternWords(n), h),
         loc |-> \E p \in location_tokens : Contains(h, p),
         susp |-> \E p \in suspicious_patterns : Contains(h, p)]]]

\* the city the address regex extracts
Cities == {"boston", "chicago"}

Rows == [name : Names, city : Cities]

Configs == [enable_google_custom_search : BOOLEAN,
            enable_duckduckgo : BOOLEAN,
            use_ai : BOOLEAN]

\* settings.ai_verification_min_confidence, in hundredths (config.py gives it
\* no default; 0.60 is the value the model runs with)
MinConfidence == 60


(***************************************************************************)
(* Evidence and external replies                                           *)
(***************************************************************************)
\* validation_data returned by the Firecrawl search with a handle
ValidationDatas ==
    { [exists |-> TRUE, gmb |-> FALSE, locs |-> 0, yelp |-> FALSE, trip |-> FALSE],
      [exists |-> TRUE, gmb |-> FALSE, locs |-> 0, yelp |-> TRUE,  trip |-> FALSE],
      [exists |-> TRUE, gmb |-> FALSE, locs |-> 2, yelp |-> FALSE, trip |-> FALSE],
      [exists |-> TRUE, gmb |-> TRUE,  locs |-> 2, yelp |-> TRUE,  trip |-> TRUE] }

\* the finder before any Firecrawl search stored validation data
NoValidationData ==
    [exists |-> FALSE, gmb |-> FALSE, locs |-> 0, yelp |-> FALSE, trip |-> FALSE]

\* outcomes of self.session.get on the profile page ("exc": the request raised)
FetchStatus == {"200", "404", "429", "exc"}

\* profile page as read by _perform_basic_validation
BasicPages ==
    [status : {"200"}, kw : BOOLEAN, nm : BOOLEAN]
    \cup [status : FetchStatus \ {"200"}, kw : {FALSE}, nm : {FALSE}]

\* profile page as read by _check_geographic_content: the place names it mentions
GeoPages ==
    [status : {"200"}, mentions : SUBSET {"boston", "chicago"}]
    \cup [status : {"404", "exc"}, mentions : {{}}]

\* profile page as read by _check_bio_content
\*   bio      some bio text could be extracted
\*   nameIn   the meaningful name words occur in the bio
\*   kw       a business keyword occurs in the bio
\*   addrMiss the address has significant words and none occurs in the bio
BioPages ==
    [status : {"200"}, bio : {TRUE}, nameIn : BOOLEAN, kw : BOOLEAN, addrMiss : {FALSE}]
    \cup [status : {"200"}, bio : {TRUE}, nameIn : BOOLEAN, kw : {TRUE}, addrMiss : {TRUE}]
    \cup [status : {"200"}, bio : {FALSE}, nameIn : {FALSE}, kw : {FALSE}, addrMiss : {FALSE}]
    \cup [status : {"404", "exc"}, bio : {FALSE}, nameIn : {FALSE}, kw : {FALSE},
          addrMiss : {FALSE}]

\* the profile page at the time a candidate is verified:
\* reachable or not, and whether at least half of the name words occur in it
VerifyPages ==
    [status : {"200"}, halfWords : BOOLEAN]
    \cup [status : FetchStatus \ {"200"}, halfWords : {FALSE}]

\* confidences an LLM reply can carry, hundredths
ConfVals == {0, 30, 60, 100}

\* replies of the LLM plausibility call ("error": the call or its parsing raised)
AiReplies ==
    [kind : {"ok"}, plausible : BOOLEAN, conf : ConfVals]
    \cup [kind : {"error"}, plausible : {FALSE}, conf : {0}]

Min(a, b) == IF a < b THEN a ELSE b
Max(a, b) == IF a > b THEN a ELSE b

(***************************************************************************)
(* Verification                                                            *)
(***************************************************************************)
\* _verify_instagram_handle: accepts any handle without looking at the page
VerifyInstagramHandle(h, name, page) == TRUE

\* _ai_verify_handle: <<verified, confidence, reason>>
AiVerifyHandle(reply) ==
    IF reply.kind = "error"
    THEN <<TRUE, 100, "AI verify skipped">>
    ELSE <<reply.plausible /\ reply.conf >= MinConfidence, reply.conf, "reason">>

\* variant: both checks required
AcceptedBoth(html_ok, ai_ok) == html_ok /\ ai_ok

\* the acceptance test of the primary loop: html_ok or ai_ok
Accepted(html_ok, ai_ok) == html_ok \/ ai_ok


(***************************************************************************)
(* Confidence scoring                                                      *)
(***************************************************************************)
\* _get_confidence_grade
GetConfidenceGrade(score) ==
    IF score >= 80000 THEN "High"
    ELSE IF score >= 50000 THEN "Medium"
    ELSE "Low"

\* round(x, 1): to the nearest tenth of a point, ties to the even tenth
Round1(x) ==
    LET r == x % 100
        lo == x - r
    IN IF r < 50 THEN lo
       ELSE IF r > 50 THEN lo + 100
       ELSE IF (lo \div 100) % 2 = 0 THEN lo ELSE lo + 100

\* _evaluate_handle_quality (0-25 points)
EvaluateHandleQuality(h, name) ==
    LET f == HandleFacts[name][h]
    IN (IF f.lenOK THEN 5000 ELSE 0)
       + (IF f.special <= 2 THEN 5000 ELSE IF f.special <= 4 THEN 2000 ELSE 0)
       + (IF ~f.spam THEN 5000 ELSE 0)
       + (IF f.k > 0 THEN Min(f.k * 3000, 10000) ELSE 0)

\* _calculate_name_similarity (0-20 points):
\* (similarity * 0.6 + word_coverage * 0.4) * 20
CalculateNameSimilarity(h, name) ==
    LET f == HandleFacts[name][h]
        n == NameFacts[name].words
    IN IF n > 0
       THEN (12000 * f.ratio[1] * n + 8000 * f.k * f.ratio[2])
            \div (f.ratio[2] * n)
       ELSE (12000 * f.ratio[1]) \div f.ratio[2]

\* variant: a rate-limited fetch earns nothing
PerformBasicValidationNo429(page, name) ==
    IF page.status = "200"
    THEN 10000 + (IF page.kw THEN 3000 ELSE 0)
               + (IF page.nm /\ NameFacts[name].words > 0 THEN 2000 ELSE 0)
    ELSE IF page.status = "exc" THEN 5000
    ELSE 0

\* _perform_basic_validation (0-15 points)
PerformBasicValidation(page, name) ==
    IF page.status = "200"
    THEN 10000 + (IF page.kw THEN 3000 ELSE 0)
               + (IF page.nm /\ NameFacts[name].words > 0 THEN 2000 ELSE 0)
    ELSE IF page.status = "429" THEN 8000
    ELSE IF page.status = "exc" THEN 5000
    ELSE 0

\* _calculate_location_strength
CalculateLocationStrength(vd) ==
    Min((IF vd.gmb THEN 3 ELSE 0) + vd.locs
        + (IF vd.yelp THEN 1 ELSE 0) + (IF vd.trip THEN 1 ELSE 0), 10)

\* _analyze_handle_pattern, in thousandths
AnalyzeHandlePattern(h, name) ==
    LET f == HandleFacts[name][h]
        n == NameFacts[name].pattern
    IN IF n = 0 THEN 500
       ELSE Min((1000 * f.pm) \div n
                + (IF f.loc THEN 200 ELSE 0)
                - (IF f.susp THEN 300 ELSE 0), 1000)

\* the place names a profile page can mention
conflicting_cities == {"chicago"}
boston_indicators == {"boston"}
boston_area == {"boston"}

\* _check_geographic_content
CheckGeographicContent(page, city) ==
    IF page.status # "200" THEN 0
    ELSE (IF page.mentions \cap conflicting_cities # {} THEN 2 ELSE 0)
         + (IF city \in boston_area /\ page.mentions \cap boston_indicators = {}
            THEN 1 ELSE 0)

\* _check_bio_content; the flags are counted in halves and int() truncates
CheckBioContent(page, name) ==
    IF page.status # "200" THEN 0
    ELSE IF ~page.bio THEN 1
    ELSE ( (IF ~page.nameIn /\ NameFacts[name].meaningful > 0 THEN 2 ELSE 0)
           + (IF ~page.kw THEN 2 ELSE 0)
           + (IF page.addrMiss THEN 1 ELSE 0) ) \div 2

\* variant: conflicting geography alone does not reject
EnhancedVerificationNoGeoRule(h, name, city, confidence_score, vd, geoPage, bioPage) ==
    LET geo == CheckGeographicContent(geoPage, city)
        bio == CheckBioContent(bioPage, name)
        adj == (IF confidence_score < 70000 THEN -15000 ELSE 0)
               + (IF CalculateLocationStrength(vd) < 2 THEN -10000 ELSE 0)
               + (IF geo > 0 THEN -(geo * 15000) ELSE 0)
               + (IF bio > 0 THEN -(bio * 10000) ELSE 0)
               + (IF AnalyzeHandlePattern(h, name) < 200 THEN -10000 ELSE 0)
        total == geo + bio
    IN [verified |-> ~( total >= 3
                        \/ confidence_score + adj < 40000
                        \/ (confidence_score < 65000 /\ total >= 2) ),
        confidence_adjustment |-> adj,
        geo |-> geo,
        bio |-> bio]

\* _enhanced_verification: [verified, confidence_adjustment, geo, bio]
EnhancedVerification(h, name, city, confidence_score, vd, geoPage, bioPage) ==
    LET geo == CheckGeographicContent(geoPage, city)
        bio == CheckBioContent(bioPage, name)
        adj == (IF confidence_score < 70000 THEN -15000 ELSE 0)
               + (IF CalculateLocationStrength(vd) < 2 THEN -10000 ELSE 0)
               + (IF geo > 0 THEN -(geo * 15000) ELSE 0)
               + (IF bio > 0 THEN -(bio * 10000) ELSE 0)
               + (IF AnalyzeHandlePattern(h, name) < 200 THEN -10000 ELSE 0)
        total == geo + bio
    IN [verified |-> ~( total >= 3
                        \/ geo >= 2
                        \/ confidence_score + adj < 40000
                        \/ (confidence_score < 65000 /\ total >= 2) ),
        confidence_adjustment |-> adj,
        geo |-> geo,
        bio |-> bio]

\* the status bonus of _calculate_confidence_score
StatusBonus(status) ==
    IF status = "ok" THEN 10000 ELSE IF status = "probable" THEN 5000 ELSE 0

\* variant: the adjusted confidence is not clamped
AdjustedConfidenceUnclamped(confidence_percentage, ev) ==
    confidence_percentage + ev.confidence_adjustment

\* lines 267-268: the confidence after the enhanced verification pass
AdjustedConfidence(confidence_percentage, ev) ==
    Max(0, Min(100000, confidence_percentage + ev.confidence_adjustment))

\* _calculate_confidence_score:
\* [score, grade], with what the pass did along the way
CalculateConfidenceScore(h, name, city, corp_handle, status, vd, basicPage, geoPage, bioPage) ==
    IF h = NoHandle
    THEN [score |-> 0, grade |-> "Low", rejected |-> FALSE, enhanced |-> FALSE,
          basic |-> 0]
    ELSE
    LET basic == PerformBasicValidation(basicPage, name)
        sum == (IF corp_handle THEN 15000 ELSE 30000)
               + EvaluateHandleQuality(h, name)
               + CalculateNameSimilarity(h, name)
               + basic
               + StatusBonus(status)
        pct == Min(sum, 100000)
        ev == EnhancedVerification(h, name, city, pct, vd, geoPage, bioPage)
        adjusted == AdjustedConfidence(pct, ev)
    IN IF vd.exists
       THEN IF ~ev.verified
            THEN [score |-> 0, grade |-> "Low", rejected |-> TRUE, enhanced |-> TRUE,
                  basic |-> basic]
            ELSE [score |-> Round1(adjusted), grade |-> GetConfidenceGrade(adjusted),
                  rejected |-> FALSE, enhanced |-> TRUE, basic |-> basic]
       ELSE [score |-> Round1(pct), grade |-> GetConfidenceGrade(pct),
             rejected |-> FALSE, enhanced |-> FALSE, basic |-> basic]

\* variant: the adjusted score is not clamped
IncorporateAiConfidenceUnclamped(base_score, ai_confidence, ai_verified) ==
    IF ai_confidence = 0 THEN base_score
    ELSE base_score + (IF ai_verified THEN 300 * ai_confidence
                       ELSE -(300 * (100 - ai_confidence)))

\* _incorporate_ai_confidence
IncorporateAiConfidence(base_score, ai_confidence, ai_verified) ==
    IF ai_confidence = 0 THEN base_score
    ELSE LET ai_contribution ==
                 IF ai_verified THEN 300 * ai_confidence
                 ELSE -(300 * (100 - ai_confidence))
         IN Max(0, Min(100000, base_score + ai_contribution))

(***************************************************************************)
(* find_instagram_handle                                                   *)
(***************************************************************************)
\* the strategies list built from the feature flags
Strategies(c) ==
    (IF c.enable_google_custom_search THEN <<"gcs">> ELSE <<>>)
    \o <<"gpt4", "firecrawl", "gmb">>
    \o (IF c.enable_duckduckgo THEN <<"ddg">> ELSE <<>>)

\* variant: the fallback runs through every strategy
TopStrategiesAll(c) == Strategies(c)

\* strategies[:3]
TopStrategies(c) ==
    SubSeq(Strategies(c), 1, IF Len(Strategies(c)) < 3 THEN Len(Strategies(c)) ELSE 3)

\* strategies that can hand back a handle (_search_with_gmb always returns None)
CanFind(a) == a \in {"gcs", "gpt4", "firecrawl", "ddg"}

\* strategies whose body is not wrapped in its own try/except
CanRaise(a) == a \in {"gcs", "ddg"}

NoVerify == [made |-> FALSE, status |-> "", halfWords |-> FALSE,
             html_ok |-> FALSE, ai_asked |-> FALSE, ai_ok |-> FALSE]

NoScoring == [made |-> FALSE, status |-> "", score |-> 0, grade |-> "Low", rejected |-> FALSE,
              enhanced |-> FALSE, basic |-> 0, basicStatus |-> "", geo |-> 0]

NoAiCall == [made |-> FALSE, kind |-> "", verified |-> FALSE, conf |-> 0]

NoMessage == [text |-> "", conf |-> 0, reason |-> ""]

NoRow == [instagram_handle |-> NoHandle, status |-> "", message |-> NoMessage,
          ai_confidence |-> 0, confidence_score |-> 0, confidence_grade |-> ""]

\* the name a loop passes to its strategies
SearchName(loop, name) == IF loop = "primary" THEN name ELSE NameFacts[name].simple

\* the strategies a loop runs through
LoopStrategies(loop, c) == IF loop = "primary" THEN Strategies(c) ELSE TopStrategies(c)

\* where find_instagram_handle goes after strategy i of a loop gave no accepted
\* handle: the next strategy, the fallback loop, or return None
AfterStrategy(loop, i, c, name) ==
    IF i < Len(LoopStrategies(loop, c)) THEN [pc |-> loop, idx |-> i + 1]
    ELSE IF loop = "primary" /\ NameFacts[name].fallback THEN [pc |-> "fallback", idx |-> 1]
    ELSE [pc |-> "returned", idx |-> 1]

\* variant: the exception is not caught
OnStrategyExceptionEscapes(loop, i, c, name) ==
    [escapes |-> TRUE, next |-> [pc |-> "raised", idx |-> i]]

\* an exception raised by a strategy call: caught, logged, the loop continues
OnStrategyException(loop, i, c, name) ==
    [escapes |-> FALSE, next |-> AfterStrategy(loop, i, c, name)]

Strategy == LoopStrategies(pc, cfg)[idx]

\* the log of strategy calls, extended by the call being made
Called(outcome, found, passed) ==
    Append(calls, [strategy |-> Strategy, loop |-> pc,
                   name |-> SearchName(pc, row.name), outcome |-> outcome,
                   found |-> found, passed |-> passed])

\* a strategy returns None (or an empty handle)
StrategyFindsNothing ==
    /\ pc \in {"primary", "fallback"}
    /\ LET nxt == AfterStrategy(pc, idx, cfg, row.name)
       IN /\ pc' = nxt.pc
          /\ idx' = nxt.idx
    /\ calls' = Called("none", NoHandle, FALSE)
    /\ UNCHANGED <<cfg, vdata, row, verify, handle, via, raised, scoring, aiCall, out>>
    /\ UNCHANGED flagVars
    /\ UNCHANGED auxVars

\* a strategy raises
StrategyRaises ==
    /\ pc \in {"primary", "fallback"}
    /\ CanRaise(Strategy)
    /\ LET r == OnStrategyException(pc, idx, cfg, row.name)
       IN /\ raised' = r.escapes
          /\ pc' = IF r.escapes THEN "raised" ELSE r.next.pc
          /\ idx' = r.next.idx
    /\ calls' = Called("raise", NoHandle, FALSE)
    /\ UNCHANGED <<cfg, vdata, row, verify, handle, via, scoring, aiCall, out>>
    /\ UNCHANGED flagVars
    /\ UNCHANGED auxVars

\* primary loop: a strategy returns a handle, which is verified (lines 58-77)
PrimaryFindsHandle ==
    /\ pc = "primary"
    /\ CanFind(Strategy)
    /\ \E cand \in Handles, page \in VerifyPages, vd \in ValidationDatas :
       \E reply \in (IF cfg.use_ai THEN AiReplies
                     ELSE {[kind |-> "error", plausible |-> FALSE, conf |-> 0]}) :
          LET html_ok == VerifyInstagramHandle(cand, row.name, page)
              ai_ok == IF cfg.use_ai THEN AiVerifyHandle(reply)[1] ELSE TRUE
              nxt == AfterStrategy(pc, idx, cfg, row.name)
          IN /\ vd = (IF Strategy = "firecrawl" THEN vd
                      ELSE CHOOSE v \in ValidationDatas : TRUE)
             /\ vdata' = IF Strategy = "firecrawl" THEN vd ELSE vdata
             /\ verify' = [made |-> TRUE, status |-> page.status,
                           halfWords |-> page.halfWords, html_ok |-> html_ok,
                           ai_asked |-> cfg.use_ai, ai_ok |-> ai_ok]
             /\ calls' = Called("handle", cand, html_ok \/ ai_ok)
             /\ IF Accepted(html_ok, ai_ok)
                THEN /\ handle' = cand
                     /\ via' = "primary"
                     /\ pc' = "returned"
                     /\ idx' = idx
                ELSE /\ handle' = handle
                     /\ via' = via
                     /\ pc' = nxt.pc
                     /\ idx' = nxt.idx
    /\ UNCHANGED <<cfg, row, raised, scoring, aiCall, out>>
    /\ UNCHANGED flagVars
    /\ UNCHANGED auxVars

\* fallback loop: a strategy returns a handle for the simplified name; only the
\* HTML check is made, against the original name (lines 96-104)
FallbackFindsHandle ==
    /\ pc = "fallback"
    /\ CanFind(Strategy)
    /\ \E cand \in Handles, page \in VerifyPages, vd \in ValidationDatas :
          LET html_ok == VerifyInstagramHandle(cand, row.name, page)
              nxt == AfterStrategy(pc, idx, cfg, row.name)
          IN /\ vd = (IF Strategy = "firecrawl" THEN vd
                      ELSE CHOOSE v \in ValidationDatas : TRUE)
             /\ vdata' = IF Strategy = "firecrawl" THEN vd ELSE vdata
             /\ verify' = [made |-> TRUE, status |-> page.status,
                           halfWords |-> page.halfWords, html_ok |-> html_ok,
                           ai_asked |-> FALSE, ai_ok |-> FALSE]
             /\ calls' = Called("handle", cand, html_ok)
             /\ IF html_ok
                THEN /\ handle' = cand
                     /\ via' = "fallback"
                     /\ pc' = "returned"
                     /\ idx' = idx
                ELSE /\ handle' = handle
                     /\ via' = via
                     /\ pc' = nxt.pc
                     /\ idx' = nxt.idx
    /\ UNCHANGED <<cfg, row, raised, scoring, aiCall, out>>
    /\ UNCHANGED flagVars
    /\ UNCHANGED auxVars

\* find_instagram_handle returns to its caller; its locals are gone
FindReturns ==
    /\ pc = "returned"
    /\ pc' = "score"
    /\ idx' = 1
    /\ calls' = <<>>
    /\ verify' = NoVerify
    /\ UNCHANGED <<cfg, vdata, row, handle, via, raised, scoring, aiCall, out>>
    /\ UNCHANGED flagVars
    /\ UNCHANGED auxVars

(***************************************************************************)
(* _process_single_row                                                     *)
(***************************************************************************)
\* variant: the status is ok whether a handle was found or not
FoundStatusAlwaysOk(h) == "ok"

\* status and message set right after find_instagram_handle (lines 147-148)
FoundStatus(h) == IF h # NoHandle THEN "ok" ELSE "not_found"

FoundMessage(h) ==
    IF h # NoHandle THEN NoMessage
    ELSE [text |-> "No handle found", conf |-> 0, reason |-> ""]

\* line 152: score the handle that was found (corp_handle is '')
Score ==
    /\ pc = "score"
    /\ \E b \in BasicPages, g \in GeoPages, bp \in BioPages :
          LET r == CalculateConfidenceScore(handle, row.name, row.city, FALSE,
                                            FoundStatus(handle), vdata, b, g, bp)
          IN /\ handle = NoHandle =>
                    /\ b = CHOOSE x \in BasicPages : TRUE
                    /\ g = CHOOSE x \in GeoPages : TRUE
                    /\ bp = CHOOSE x \in BioPages : TRUE
             /\ scoring' = [made |-> TRUE, status |-> FoundStatus(handle),
                            score |-> r.score, grade |-> r.grade,
                            rejected |-> r.rejected, enhanced |-> r.enhanced,
                            basic |-> r.basic,
                            basicStatus |-> IF handle = NoHandle THEN "" ELSE b.status,
                            geo |-> IF handle = NoHandle THEN 0
                                    ELSE CheckGeographicContent(g, row.city)]
    /\ pc' = "ai"
    /\ UNCHANGED <<cfg, vdata, row, aiCall, out>>
    /\ UNCHANGED findVars
    /\ UNCHANGED flagVars
    /\ UNCHANGED auxVars

\* what stays known of the scoring call once the row is built: its result
Kept(sc) == [sc EXCEPT !.basic = 0, !.basicStatus = "", !.geo = 0]

\* the row built at lines 166-178
ResultRow(h, status, message, ai_conf, score, grade) ==
    [instagram_handle |-> h, status |-> status, message |-> message,
     ai_confidence |-> ai_conf, confidence_score |-> score,
     confidence_grade |-> grade]

\* lines 157-164: the LLM check and the blending of its confidence
AiVerification ==
    /\ pc = "ai"
    /\ handle # NoHandle
    /\ cfg.use_ai
    /\ \E reply \in AiReplies :
          LET a == AiVerifyHandle(reply)
              low == ~a[1] /\ a[2] < MinConfidence
              blended == IncorporateAiConfidence(scoring.score, a[2], a[1])
          IN /\ aiCall' = [made |-> TRUE, kind |-> reply.kind,
                           verified |-> a[1], conf |-> a[2]]
             /\ out' = ResultRow(handle,
                                 IF low THEN "probable" ELSE FoundStatus(handle),
                                 IF low THEN [text |-> "AI low confidence",
                                              conf |-> a[2], reason |-> a[3]]
                                 ELSE FoundMessage(handle),
                                 a[2], blended, GetConfidenceGrade(blended))
    /\ scoring' = Kept(scoring)
    /\ pc' = "done"
    /\ UNCHANGED <<cfg, vdata, row>>
    /\ UNCHANGED findVars
    /\ UNCHANGED flagVars
    /\ UNCHANGED auxVars

\* no handle, or AI verification switched off: the row is returned as scored
NoAiVerification ==
    /\ pc = "ai"
    /\ ~(handle # NoHandle /\ cfg.use_ai)
    /\ aiCall' = NoAiCall
    /\ out' = ResultRow(handle, FoundStatus(handle), FoundMessage(handle),
                        0, scoring.score, scoring.grade)
    /\ scoring' = Kept(scoring)
    /\ pc' = "done"
    /\ UNCHANGED <<cfg, vdata, row>>
    /\ UNCHANGED findVars
    /\ UNCHANGED flagVars
    /\ UNCHANGED auxVars

\* the row built by the except branch (lines 179-192)
ExceptionRow ==
    ResultRow(NoHandle, "error", [text |-> "exception", conf |-> 0, reason |-> ""],
              0, 0, "Low")

\* an exception is raised inside the try of _process_single_row, after
\* find_instagram_handle returned: the except branch builds the row
RowRaises ==
    /\ pc \in {"score", "ai"}
    /\ out' = ExceptionRow
    /\ scoring' = NoScoring
    /\ aiCall' = NoAiCall
    /\ pc' = "done"
    /\ UNCHANGED <<cfg, vdata, row>>
    /\ UNCHANGED findVars
    /\ UNCHANGED flagVars
    /\ UNCHANGED auxVars

\* the same finder is given the next row
NextRow ==
    /\ pc = "done"
    /\ row' \in Rows
    /\ pc' = "primary"
    /\ idx' = 1
    /\ calls' = <<>>
    /\ verify' = NoVerify
    /\ handle' = NoHandle
    /\ via' = ""
    /\ scoring' = NoScoring
    /\ aiCall' = NoAiCall
    /\ out' = NoRow
    /\ UNCHANGED <<cfg, vdata, raised>>
    /\ UNCHANGED flagVars
    /\ UNCHANGED auxVars

(***************************************************************************)
(* add_review_flags                                                        *)
(***************************************************************************)
\* longest batch handed to add_review_flags
MaxBatch == 2

\* a field of a result row: None (or missing), or a string
NoneValue == [none |-> TRUE, text |-> <<>>]
Str(t) == [none |-> FALSE, text |-> t]

BusinessIds == {NoneValue, Str(<<" ">>), Str(<<"a">>), Str(<<"a", " ">>), Str(<<"b">>)}
BatchHandles == {NoneValue, Str(<<>>), Str(<<"h">>), Str(<<"H", " ">>), Str(<<"g">>)}

BatchRows == [business_id : BusinessIds, instagram_handle : BatchHandles]

Batches == UNION { [1..n -> BatchRows] : n \in 0..MaxBatch }

\* (value or '')
OrEmpty(v) == IF v.none THEN <<>> ELSE v.text

\* str.lower() over the alphabet of the batches
LowerChar(ch) == IF ch = "H" THEN "h" ELSE IF ch = "G" THEN "g" ELSE ch
Lower(t) == [i \in 1..Len(t) |-> LowerChar(t[i])]

\* the first loop: business id -> set of its non-empty normalised handles
RECURSIVE GroupHandles(_, _, _)
GroupHandles(rows, i, by_biz) ==
    IF i > Len(rows) THEN by_biz
    ELSE LET bid == Strip(OrEmpty(rows[i].business_id))
             h == Lower(Strip(OrEmpty(rows[i].instagram_handle)))
             known == IF bid \in DOMAIN by_biz THEN by_biz[bid] ELSE {}
             added == IF h # <<>> THEN known \cup {h} ELSE known
         IN IF bid # <<>>
            THEN GroupHandles(rows, i + 1,
                     [b \in DOMAIN by_biz \cup {bid} |->
                         IF b = bid THEN added ELSE by_biz[b]])
            ELSE GroupHandles(rows, i + 1, by_biz)

\* variant: the first loop compares handles without lower-casing them
RECURSIVE GroupHandlesCased(_, _, _)
GroupHandlesCased(rows, i, by_biz) ==
    IF i > Len(rows) THEN by_biz
    ELSE LET bid == Strip(OrEmpty(rows[i].business_id))
             h == Strip(OrEmpty(rows[i].instagram_handle))
             known == IF bid \in DOMAIN by_biz THEN by_biz[bid] ELSE {}
             added == IF h # <<>> THEN known \cup {h} ELSE known
         IN IF bid # <<>>
            THEN GroupHandlesCased(rows, i + 1,
                     [b \in DOMAIN by_biz \cup {bid} |->
                         IF b = bid THEN added ELSE by_biz[b]])
            ELSE GroupHandlesCased(rows, i + 1, by_biz)

\* variant of add_review_flags built on the case-sensitive grouping
AddReviewFlagsCased(rows) ==
    LET by_biz == GroupHandlesCased(rows, 1, <<>>)
        flagged == {b \in DOMAIN by_biz : Cardinality(by_biz[b]) > 1}
    IN [i \in 1..Len(rows) |->
           IF Strip(OrEmpty(rows[i].business_id)) \in flagged THEN "FLAG" ELSE ""]

\* add_review_flags of run_full_system_extract.py: the review column
AddReviewFlagsExtract(rows) ==
    LET by_biz == GroupHandles(rows, 1, <<>>)
        flagged == {b \in DOMAIN by_biz : Cardinality(by_biz[b]) > 1}
    IN [i \in 1..Len(rows) |->
           IF Strip(OrEmpty(rows[i].business_id)) \in flagged THEN "FLAG" ELSE ""]

\* add_review_flags of run_full_system_golden.py: the review column
AddReviewFlagsGolden(rows) ==
    LET business_id_to_handles == GroupHandles(rows, 1, <<>>)
        conflicting_business_ids ==
            {b \in DOMAIN business_id_to_handles :
                Cardinality(business_id_to_handles[b]) > 1}
    IN [i \in 1..Len(rows) |->
           IF Strip(OrEmpty(rows[i].business_id)) \in conflicting_business_ids
           THEN "FLAG" ELSE ""]

\* the extract runner flags the batch
FlagExtract ==
    /\ pc \in {"flags", "flagged_golden"}
    /\ reviewE' = AddReviewFlagsExtract(batch)
    /\ pc' = IF pc = "flags" THEN "flagged_extract" ELSE "flagged_both"
    /\ UNCHANGED <<cfg, vdata, row, scoring, aiCall, out, batch, reviewG>>
    /\ UNCHANGED findVars
    /\ UNCHANGED auxVars

\* the golden runner flags the batch
FlagGolden ==
    /\ pc \in {"flags", "flagged_extract"}
    /\ reviewG' = AddReviewFlagsGolden(batch)
    /\ pc' = IF pc = "flags" THEN "flagged_golden" ELSE "flagged_both"
    /\ UNCHANGED <<cfg, vdata, row, scoring, aiCall, out, batch, reviewE>>
    /\ UNCHANGED findVars
    /\ UNCHANGED auxVars

\* no direct scoring call is being made
NoInput == [name |-> <<>>, handle |-> <<>>, city |-> ""]
ScoreIdle == inp = NoInput /\ res = <<>> /\ searches = 0

\* the parts of the program a run does not exercise are at rest
\* no bulk run is going on
NoCooldown == [openai |-> 0, firecrawl |-> 0]
NoDispatch == [pc |-> "off", i |-> 1, wake |-> 0, last_start_ts |-> 0]
PoolIdle == now = 0 /\ cooldown = NoCooldown /\ disp = NoDispatch /\ task = <<>>

\* no batch run is going on
NoRun == [runner |-> "", pc |-> "off", i |-> 1, jsonl_path |-> FALSE, latest_path |-> FALSE, save_every |-> 0, done_at_interrupt |-> {}]
NoStored == [jsonl |-> <<>>, latest |-> <<>>]
RunIdle == run = NoRun /\ work = <<>> /\ results = <<>> /\ stored = NoStored

\* no thread is calling the Firecrawl wrapper
NoGate == [lock |-> 0, made |-> 0, held |-> {}, last |-> 0, prev |-> -1, clock |-> 0]
GateIdle == gate = NoGate /\ thr = <<>>

AuxIdle == ScoreIdle /\ PoolIdle /\ RunIdle /\ GateIdle

Init ==
    /\ cfg \in Configs
    /\ vdata = NoValidationData
    /\ row \in Rows
    /\ pc = "primary"
    /\ idx = 1
    /\ calls = <<>>
    /\ verify = NoVerify
    /\ handle = NoHandle
    /\ via = ""
    /\ raised = FALSE
    /\ scoring = NoScoring
    /\ aiCall = NoAiCall
    /\ out = NoRow
    /\ batch = <<>>
    /\ reviewE = <<>>
    /\ reviewG = <<>>
    /\ AuxIdle

Next ==
    \/ StrategyFindsNothing
    \/ StrategyRaises
    \/ PrimaryFindsHandle
    \/ FallbackFindsHandle
    \/ FindReturns
    \/ Score
    \/ AiVerification
    \/ NoAiVerification
    \/ RowRaises
    \/ NextRow

Spec == Init /\ [][Next]_vars

InitFlags ==
    /\ cfg = [enable_google_custom_search |-> TRUE, enable_duckduckgo |-> TRUE,
              use_ai |-> FALSE]
    /\ vdata = NoValidationData
    /\ row = CHOOSE r \in Rows : TRUE
    /\ pc = "flags"
    /\ idx = 1
    /\ calls = <<>>
    /\ verify = NoVerify
    /\ handle = NoHandle
    /\ via = ""
    /\ raised = FALSE
    /\ scoring = NoScoring
    /\ aiCall = NoAiCall
    /\ out = NoRow
    /\ batch \in Batches
    /\ reviewE = <<>>
    /\ reviewG = <<>>
    /\ AuxIdle

NextFlags == FlagExtract \/ FlagGolden

SpecFlags == InitFlags /\ [][NextFlags]_vars

(***************************************************************************)
(* Direct calls of the scoring functions                                   *)
(***************************************************************************)
\* the row-processing and flagging variables while neither is running
RowIdle ==
    /\ cfg = [enable_google_custom_search |-> TRUE, enable_duckduckgo |-> TRUE,
              use_ai |-> FALSE]
    /\ vdata = NoValidationData
    /\ row = CHOOSE r \in Rows : TRUE
    /\ idx = 1
    /\ calls = <<>>
    /\ verify = NoVerify
    /\ handle = NoHandle
    /\ via = ""
    /\ raised = FALSE
    /\ scoring = NoScoring
    /\ aiCall = NoAiCall
    /\ out = NoRow
    /\ batch = <<>>
    /\ reviewE = <<>>
    /\ reviewG = <<>>

rowVars == <<cfg, vdata, row, pc, idx, calls, verify, handle, via, raised,
             scoring, aiCall, out, batch, reviewE, reviewG>>

\* base confidences handed to _enhanced_verification, thousandths of a point
BaseScores == {30000, 50000, 64000, 70000, 95000}

\* arguments of _enhanced_verification with the pages its two fetches get
VerifyInputs ==
    [name : Names, handle : Handles, city : Cities, base : BaseScores,
     vd : ValidationDatas, geo : GeoPages, bio : BioPages]

\* the call self._enhanced_verification(...) made at lines 264-266
EnhancedVerificationCall(i) ==
    EnhancedVerification(i.handle, i.name, i.city, i.base, i.vd, i.geo, i.bio)

\* _enhanced_verification is called on the inputs
Verify ==
    /\ pc = "verify"
    /\ res = <<>>
    /\ res' = <<EnhancedVerificationCall(inp)>>
    /\ UNCHANGED <<inp, searches>>
    /\ UNCHANGED rowVars
    /\ UNCHANGED gateVars
    /\ UNCHANGED runVars
    /\ UNCHANGED poolVars

InitVerify ==
    /\ RowIdle
    /\ GateIdle
    /\ RunIdle
    /\ PoolIdle
    /\ pc = "verify"
    /\ inp \in VerifyInputs
    /\ res = <<>>
    /\ searches = 0

NextVerify == Verify

SpecVerify == InitVerify /\ [][NextVerify]_vars

\* most calls of _calculate_confidence_score made on one finder for one input
MaxRescore == 2
\* most Firecrawl searches made on that finder meanwhile
MaxSearches == 1

\* arguments of _calculate_confidence_score (corp_handle '', status 'ok') with
\* the pages its fetches get, which stay the same from call to call
RescoreInputs ==
    [name : Names, handle : Handles, city : Cities,
     basic : {p \in BasicPages : p.status \in {"200", "429"} /\ ~p.kw /\ ~p.nm},
     geo : GeoPages,
     bio : {p \in BioPages : ~p.addrMiss /\ p.nameIn = p.kw}]

\* _calculate_confidence_score is called on the inputs
Rescore ==
    /\ pc = "rescore"
    /\ Len(res) < MaxRescore
    /\ LET r == CalculateConfidenceScore(inp.handle, inp.name, inp.city, FALSE, "ok",
                                         vdata, inp.basic, inp.geo, inp.bio)
       IN res' = Append(res, [score |-> r.score, grade |-> r.grade])
    /\ UNCHANGED <<cfg, vdata, row, pc, idx, calls, verify, handle, via, raised,
                   scoring, aiCall, out, batch, reviewE, reviewG>>
    /\ UNCHANGED <<inp, searches>>
    /\ UNCHANGED poolVars
    /\ UNCHANGED runVars
    /\ UNCHANGED gateVars

\* a Firecrawl search on the same finder finds a handle (for whatever
\* restaurant) and stores its validation data (lines 836-839)
FirecrawlSearch ==
    /\ pc = "rescore"
    /\ searches < MaxSearches
    /\ vdata' \in ValidationDatas
    /\ searches' = searches + 1
    /\ UNCHANGED <<cfg, row, pc, idx, calls, verify, handle, via, raised,
                   scoring, aiCall, out, batch, reviewE, reviewG>>
    /\ UNCHANGED <<inp, res>>
    /\ UNCHANGED poolVars
    /\ UNCHANGED runVars
    /\ UNCHANGED gateVars

InitRescore ==
    /\ RowIdle
    /\ GateIdle
    /\ RunIdle
    /\ PoolIdle
    /\ pc = "rescore"
    /\ inp \in RescoreInputs
    /\ res = <<>>
    /\ searches = 0

NextRescore == Rescore \/ FirecrawlSearch

SpecRescore == InitRescore /\ [][NextRescore]_vars

(***************************************************************************)
(* process_dataset_extract: dispatch, the pool and the rate-limit cooldowns *)
(***************************************************************************)
\* rows of the run
NumTasks == 3
\* max_workers of the pool
PoolWorkers == 2
\* last tick of the clock
MaxTime == 4
\* 1 / starts_per_sec, in ticks
MinInterval == 1
\* Retry-After values of the rate-limit signals, in ticks
RetryAfters == {1, 3}

NewTask == [st |-> "new", hot |-> FALSE, hit |-> FALSE]

\* get_rate_cooldowns: remaining seconds for (openai, firecrawl)
GetRateCooldowns ==
    <<Max(0, cooldown.openai - now), Max(0, cooldown.firecrawl - now)>>

Running == {i \in 1..Len(task) : task[i].st = "running"}
Queued == {i \in 1..Len(task) : task[i].st = "queued"}

\* time passes
Tick ==
    /\ disp.pc # "off"
    /\ now < MaxTime
    /\ now' = now + 1
    /\ UNCHANGED <<cooldown, disp, task>>
    /\ UNCHANGED rowVars
    /\ UNCHANGED gateVars
    /\ UNCHANGED runVars
    /\ UNCHANGED scoreVars

\* lines 173-178: the start-rate throttle
Throttle ==
    /\ disp.pc = "throttle"
    /\ IF now - disp.last_start_ts < MinInterval
       THEN disp' = [disp EXCEPT !.pc = "throttle_sleep",
                                 !.wake = disp.last_start_ts + MinInterval]
       ELSE disp' = [disp EXCEPT !.pc = "cooldown", !.last_start_ts = now]
    /\ UNCHANGED <<now, cooldown, task>>
    /\ UNCHANGED rowVars
    /\ UNCHANGED gateVars
    /\ UNCHANGED runVars
    /\ UNCHANGED scoreVars

\* lines 180-188: one look at the cooldowns, then one sleep for what remains
AdaptiveCooldown ==
    /\ disp.pc = "cooldown"
    /\ LET adaptive_sleep == Max(GetRateCooldowns[1], GetRateCooldowns[2])
       IN IF adaptive_sleep > 0
          THEN disp' = [disp EXCEPT !.pc = "cooldown_sleep",
                                    !.wake = now + adaptive_sleep]
          ELSE disp' = [disp EXCEPT !.pc = "submit"]
    /\ UNCHANGED <<now, cooldown, task>>
    /\ UNCHANGED rowVars
    /\ UNCHANGED gateVars
    /\ UNCHANGED runVars
    /\ UNCHANGED scoreVars

\* time.sleep returns
Wake ==
    /\ disp.pc \in {"throttle_sleep", "cooldown_sleep"}
    /\ now >= disp.wake
    /\ disp' = IF disp.pc = "throttle_sleep"
               THEN [disp EXCEPT !.pc = "cooldown", !.last_start_ts = now]
               ELSE [disp EXCEPT !.pc = "submit"]
    /\ UNCHANGED <<now, cooldown, task>>
    /\ UNCHANGED rowVars
    /\ UNCHANGED gateVars
    /\ UNCHANGED runVars
    /\ UNCHANGED scoreVars

\* line 189: executor.submit
Submit ==
    /\ disp.pc = "submit"
    /\ task' = [task EXCEPT ![disp.i].st = "queued"]
    /\ disp' = [disp EXCEPT !.i = disp.i + 1,
                            !.pc = IF disp.i < Len(task) THEN "throttle"
                                   ELSE "dispatched"]
    /\ UNCHANGED <<now, cooldown>>
    /\ UNCHANGED rowVars
    /\ UNCHANGED gateVars
    /\ UNCHANGED runVars
    /\ UNCHANGED scoreVars

\* a free pool worker picks up the oldest queued task
WorkerStart ==
    /\ Queued # {}
    /\ Cardinality(Running) < PoolWorkers
    /\ LET i == CHOOSE q \in Queued : \A r \in Queued : q <= r
       IN task' = [task EXCEPT ![i].st = "running",
                               ![i].hot = (GetRateCooldowns[1] > 0
                                           \/ GetRateCooldowns[2] > 0)]
    /\ UNCHANGED <<now, cooldown, disp>>
    /\ UNCHANGED rowVars
    /\ UNCHANGED gateVars
    /\ UNCHANGED runVars
    /\ UNCHANGED scoreVars

\* the deadline stored on a rate-limit signal: time.time() + retry_after
RateLimitDeadline(old, t, retry_after) == t + retry_after

\* a running task is rate-limited by Firecrawl (firecrawl_search.py 214-222)
\* or by OpenAI (firecrawl_search.py 378-386)
RateLimited ==
    /\ \E i \in Running, k \in {"openai", "firecrawl"}, ra \in RetryAfters :
          /\ ~task[i].hit
          /\ cooldown' = [cooldown EXCEPT ![k] = RateLimitDeadline(cooldown[k], now, ra)]
          /\ task' = [task EXCEPT ![i].hit = TRUE]
    /\ UNCHANGED <<now, disp>>
    /\ UNCHANGED rowVars
    /\ UNCHANGED gateVars
    /\ UNCHANGED runVars
    /\ UNCHANGED scoreVars

\* a running task returns
WorkerFinish ==
    /\ \E i \in Running : task' = [task EXCEPT ![i].st = "done"]
    /\ UNCHANGED <<now, cooldown, disp>>
    /\ UNCHANGED rowVars
    /\ UNCHANGED gateVars
    /\ UNCHANGED runVars
    /\ UNCHANGED scoreVars

InitCooldown ==
    /\ RowIdle
    /\ GateIdle
    /\ RunIdle
    /\ pc = "extract"
    /\ ScoreIdle
    /\ now = 1
    /\ cooldown = NoCooldown
    /\ disp = [pc |-> "throttle", i |-> 1, wake |-> 0, last_start_ts |-> 0]
    /\ task = [i \in 1..NumTasks |-> NewTask]

NextCooldown ==
    \/ Tick
    \/ Throttle
    \/ AdaptiveCooldown
    \/ Wake
    \/ Submit
    \/ WorkerStart
    \/ RateLimited
    \/ WorkerFinish

SpecCooldown == InitCooldown /\ [][NextCooldown]_vars

(***************************************************************************)
(* Handle extraction by the adapters                                       *)
(***************************************************************************)
\* longest text an LLM reply or a URL path is drawn with
MaxText == 3

\* characters the texts are drawn from
TextChars == {"a", "p", "_", "@", "-", " ", "/"}

\* the class [a-zA-Z0-9._] restricted to TextChars
HandleChars == {"a", "p", "_"}

Texts == UNION {[1..n -> TextChars] : n \in 0..MaxText}

NOT_FOUND == <<"N", "O", "T", "_", "F", "O", "U", "N", "D">>

UpperChar(ch) == IF ch = "a" THEN "A" ELSE IF ch = "p" THEN "P" ELSE ch
Upper(t) == [i \in 1..Len(t) |-> UpperChar(t[i])]

\* re.sub(r'[^a-zA-Z0-9._]', '', result)
KeepHandleChars(t) == SelectSeq(t, LAMBDA ch : ch \in HandleChars)

\* _extract_handle_with_llm on the reply of the extraction call; None is NoHandle
ExtractHandleWithLlm(reply) ==
    LET result == Strip(reply)
        h == Strip(SelectSeq(result, LAMBDA ch : ch # "@"))
    IN IF result # <<>> /\ Upper(result) # NOT_FOUND /\ h # <<>> /\ Len(h) >= 3 /\ Len(h) <= 30
       THEN h ELSE NoHandle

\* the cleaning of the LLM reply in _analyze_content_with_openai
AnalyzeContentWithOpenai(reply) ==
    LET result == Strip(reply)
        h == KeepHandleChars(result)
    IN IF result # <<>> /\ result # NOT_FOUND /\ h # <<>> THEN h ELSE NoHandle

\* the longest prefix of t made of handle characters: the group
\* ([a-zA-Z0-9._]+) matched right after "instagram.com/"
RECURSIVE HandlePrefix(_)
HandlePrefix(t) ==
    IF t # <<>> /\ Head(t) \in HandleChars THEN <<Head(t)>> \o HandlePrefix(Tail(t)) ELSE <<>>

non_profile_paths == {<<"p">>}

\* _extract_instagram_handle_from_url on the URL "https://www.instagram.com/" + path
ExtractInstagramHandleFromUrl(path) ==
    LET h == HandlePrefix(path)
    IN IF h # <<>> /\ h \notin non_profile_paths THEN h ELSE NoHandle

ExtractAdapters == {"gpt4", "firecrawl", "gcs", "ddg"}

ExtractInputs == [adapter : ExtractAdapters, text : Texts]

\* the handle an adapter returns for the text it was given
AdapterHandle(i) ==
    CASE i.adapter = "gpt4" -> ExtractHandleWithLlm(i.text)
      [] i.adapter = "firecrawl" -> AnalyzeContentWithOpenai(i.text)
      [] OTHER -> ExtractInstagramHandleFromUrl(i.text)

\* the adapter extracts the handle from its text
ExtractHandle ==
    /\ pc = "extract_handle"
    /\ res = <<>>
    /\ res' = <<AdapterHandle(inp)>>
    /\ UNCHANGED <<inp, searches>>
    /\ UNCHANGED rowVars
    /\ UNCHANGED gateVars
    /\ UNCHANGED runVars
    /\ UNCHANGED poolVars

InitExtract ==
    /\ RowIdle
    /\ GateIdle
    /\ RunIdle
    /\ PoolIdle
    /\ pc = "extract_handle"
    /\ inp \in ExtractInputs
    /\ res = <<>>
    /\ searches = 0

NextExtract == ExtractHandle

SpecExtract == InitExtract /\ [][NextExtract]_vars

(***************************************************************************)
(* Batch runs: find_instagram_handles_bulk and process_dataset_extract     *)
(***************************************************************************)
\* rows of a batch
MaxRows == 2

\* threads of the pool (max_workers)
BatchWorkers == 2

Runners == {"bulk", "extract"}

\* what processing a row does: the finder finds a handle, finds none, an
\* exception is raised inside the try of _process_single_row (lines 145-178),
\* while it strips the input fields (lines 140-144), or by the print at line
\* 56 of process_single_restaurant_extract
Outcomes(runner) ==
    {"ok", "not_found", "raise_find", "raise_strip"} \cup (IF runner = "extract" THEN {"raise_print"} ELSE {})

NewFuture == [st |-> "new", outcome |-> ""]

\* a result row: the input row it is for, status and handle ("" when empty)
FoundRow(k) == [row |-> k, status |-> "ok", instagram_handle |-> "h"]
NotFoundRow(k) == [row |-> k, status |-> "not_found", instagram_handle |-> ""]
ErrorRow(k) == [row |-> k, status |-> "error", instagram_handle |-> ""]

\* what the callable submitted to the pool does for row k: it returns a row
\* or lets an exception escape into the future
ProcessSingleRow(runner, k, outcome) ==
    CASE outcome = "ok" -> [raised |-> FALSE, value |-> FoundRow(k)]
      [] outcome = "not_found" -> [raised |-> FALSE, value |-> NotFoundRow(k)]
      [] outcome = "raise_find" -> [raised |-> FALSE, value |-> ErrorRow(k)]
      [] outcome = "raise_strip" /\ runner = "extract" -> [raised |-> FALSE, value |-> ErrorRow(k)]
      [] OTHER -> [raised |-> TRUE, value |-> ErrorRow(k)]

\* variant: the handler of the collection loop records nothing for the row
OnFutureExceptionDropsRow(runner, k) == <<>>

\* the rows the except branch of the collection loop appends for row k
OnFutureException(runner, k) == <<ErrorRow(k)>>

\* the rows one iteration of the collection loop appends for the future of row k
CollectedRows(runner, k, outcome) ==
    LET r == ProcessSingleRow(runner, k, outcome)
    IN IF r.raised THEN OnFutureException(runner, k) ELSE <<r.value>>

InPool(st) == {k \in 1..Len(work) : work[k].st = st}

\* the main thread sleeps for the start-rate throttle or a cooldown before
\* submitting row run.i (extract runner only)
DispatchSleep ==
    /\ run.pc = "sleep"
    /\ run' = [run EXCEPT !.pc = "submit"]
    /\ UNCHANGED <<work, results, stored>>
    /\ UNCHANGED rowVars
    /\ UNCHANGED gateVars
    /\ UNCHANGED scoreVars
    /\ UNCHANGED poolVars

\* executor.submit for row run.i
SubmitRow ==
    /\ run.pc = "submit"
    /\ work' = [work EXCEPT ![run.i].st = "queued"]
    /\ run' = [run EXCEPT !.i = run.i + 1,
                          !.pc = IF run.i = Len(work) THEN "collect"
                                 ELSE IF run.runner = "extract" THEN "sleep" ELSE "submit"]
    /\ UNCHANGED <<results, stored>>
    /\ UNCHANGED rowVars
    /\ UNCHANGED gateVars
    /\ UNCHANGED scoreVars
    /\ UNCHANGED poolVars

\* a free pool thread takes a queued row
StartRow ==
    /\ Cardinality(InPool("running")) < BatchWorkers
    /\ \E k \in InPool("queued") : work' = [work EXCEPT ![k].st = "running"]
    /\ UNCHANGED <<run, results, stored>>
    /\ UNCHANGED rowVars
    /\ UNCHANGED gateVars
    /\ UNCHANGED scoreVars
    /\ UNCHANGED poolVars

\* the processing of a row ends, one way or another
FinishRow ==
    /\ \E k \in InPool("running"), o \in Outcomes(run.runner) :
          work' = [work EXCEPT ![k] = [st |-> "done", outcome |-> o]]
    /\ UNCHANGED <<run, results, stored>>
    /\ UNCHANGED rowVars
    /\ UNCHANGED gateVars
    /\ UNCHANGED scoreVars
    /\ UNCHANGED poolVars

\* _write_latest_snapshot with the results list rs, on the storage st
WriteLatestSnapshot(st, rs) ==
    IF rs # <<>> /\ run.latest_path THEN [st EXCEPT !.latest = rs] ELSE st

\* one iteration of the as_completed loop: the row is appended, streamed to
\* the JSONL file and, every save_every rows, the snapshot is rewritten
Collect ==
    /\ run.pc = "collect"
    /\ \E k \in InPool("done") :
          LET rs == results \o CollectedRows(run.runner, k, work[k].outcome)
              streamed == IF run.jsonl_path /\ rs # <<>>
                          THEN [stored EXCEPT !.jsonl = Append(stored.jsonl, rs[Len(rs)])]
                          ELSE stored
              completed == Cardinality(InPool("collected")) + 1
          IN /\ work' = [work EXCEPT ![k].st = "collected"]
             /\ results' = rs
             /\ stored' = IF run.save_every > 0 /\ completed % run.save_every = 0
                          THEN WriteLatestSnapshot(streamed, rs) ELSE streamed
    /\ UNCHANGED run
    /\ UNCHANGED rowVars
    /\ UNCHANGED gateVars
    /\ UNCHANGED scoreVars
    /\ UNCHANGED poolVars

\* every future has been yielded: the runner returns results
Return ==
    /\ run.pc = "collect"
    /\ InPool("collected") = 1..Len(work)
    /\ run' = [run EXCEPT !.pc = "returned"]
    /\ UNCHANGED <<work, results, stored>>
    /\ UNCHANGED rowVars
    /\ UNCHANGED gateVars
    /\ UNCHANGED scoreVars
    /\ UNCHANGED poolVars

\* KeyboardInterrupt in the main thread of process_dataset_extract: inside
\* the try of lines 193-258 the handler writes the snapshot; the dispatch
\* loop of lines 172-190 is outside that try.  Either way the exception
\* leaves the with block, which waits for the pool.
Interrupt ==
    /\ run.runner = "extract"
    /\ run.pc \in {"sleep", "submit", "collect"}
    /\ run' = [run EXCEPT !.pc = "unwinding",
                          !.done_at_interrupt = InPool("done") \cup InPool("collected")]
    /\ stored' = IF run.pc = "collect" THEN WriteLatestSnapshot(stored, results) ELSE stored
    /\ UNCHANGED <<work, results>>
    /\ UNCHANGED rowVars
    /\ UNCHANGED gateVars
    /\ UNCHANGED scoreVars
    /\ UNCHANGED poolVars

\* executor.shutdown(wait=True) is over: the KeyboardInterrupt leaves the function
Exit ==
    /\ run.pc = "unwinding"
    /\ InPool("queued") = {} /\ InPool("running") = {}
    /\ run' = [run EXCEPT !.pc = "interrupted"]
    /\ UNCHANGED <<work, results, stored>>
    /\ UNCHANGED rowVars
    /\ UNCHANGED gateVars
    /\ UNCHANGED scoreVars
    /\ UNCHANGED poolVars

RunConfigs ==
    {[NoRun EXCEPT !.runner = "bulk", !.pc = "submit"]}
    \cup {[NoRun EXCEPT !.runner = "extract", !.pc = "sleep", !.jsonl_path = j, !.latest_path = l, !.save_every = s] : j \in BOOLEAN, l \in BOOLEAN, s \in {0, 1}}

InitBatch ==
    /\ RowIdle
    /\ GateIdle
    /\ ScoreIdle
    /\ PoolIdle
    /\ pc = "batch"
    /\ run \in RunConfigs
    /\ \E n \in 1..MaxRows : work = [k \in 1..n |-> NewFuture]
    /\ results = <<>>
    /\ stored = NoStored

NextBatch ==
    \/ DispatchSleep
    \/ SubmitRow
    \/ StartRow
    \/ FinishRow
    \/ Collect
    \/ Return
    \/ Interrupt
    \/ Exit

SpecBatch == InitBatch /\ [][NextBatch]_vars

(***************************************************************************)
(* The Firecrawl rate gate of firecrawl_search_restaurant_instagram_sync   *)
(***************************************************************************)
\* threads calling the wrapper
GateThreads == 2

\* calls each thread makes
MaxGateCalls == 2

\* the clock stops here, in ticks
MaxClock == 6

\* 1.0 second, in ticks
Second == 2

NewThread == [pc |-> "idle", lock |-> 0, wake |-> 0, calls |-> 0]

\* threads between acquiring the lock and leaving the with block
InGate == {t \in 1..Len(thr) : thr[t].pc \in {"read", "sleep", "write"}}

\* time passes
ClockTick ==
    /\ thr # <<>>
    /\ gate.clock < MaxClock
    /\ gate' = [gate EXCEPT !.clock = gate.clock + 1]
    /\ UNCHANGED thr
    /\ UNCHANGED rowVars
    /\ UNCHANGED scoreVars
    /\ UNCHANGED poolVars
    /\ UNCHANGED runVars

\* a thread enters the wrapper and _get_fc_thread_lock
CallWrapper ==
    /\ \E t \in 1..Len(thr) :
          /\ thr[t].pc = "idle"
          /\ thr[t].calls < MaxGateCalls
          /\ thr' = [thr EXCEPT ![t].pc = "check", ![t].calls = thr[t].calls + 1]
    /\ UNCHANGED gate
    /\ UNCHANGED rowVars
    /\ UNCHANGED scoreVars
    /\ UNCHANGED poolVars
    /\ UNCHANGED runVars

\* line 27: if _fc_thread_lock is None
CheckLock ==
    /\ \E t \in 1..Len(thr) :
          /\ thr[t].pc = "check"
          /\ thr' = [thr EXCEPT ![t].pc = IF gate.lock = 0 THEN "create" ELSE "return"]
    /\ UNCHANGED gate
    /\ UNCHANGED rowVars
    /\ UNCHANGED scoreVars
    /\ UNCHANGED poolVars
    /\ UNCHANGED runVars

\* line 28: _fc_thread_lock = threading.Lock(), a new lock each time
CreateLock ==
    /\ \E t \in 1..Len(thr) :
          /\ thr[t].pc = "create"
          /\ thr' = [thr EXCEPT ![t].pc = "return"]
    /\ gate' = [gate EXCEPT !.made = gate.made + 1, !.lock = gate.made + 1]
    /\ UNCHANGED rowVars
    /\ UNCHANGED scoreVars
    /\ UNCHANGED poolVars
    /\ UNCHANGED runVars

\* line 29 and line 423: lock = the value of _fc_thread_lock at the return
ReturnLock ==
    /\ \E t \in 1..Len(thr) :
          /\ thr[t].pc = "return"
          /\ thr' = [thr EXCEPT ![t].pc = "acquire", ![t].lock = gate.lock]
    /\ UNCHANGED gate
    /\ UNCHANGED rowVars
    /\ UNCHANGED scoreVars
    /\ UNCHANGED poolVars
    /\ UNCHANGED runVars

\* line 424: with lock, which waits while another thread holds that lock
AcquireLock ==
    /\ \E t \in 1..Len(thr) :
          /\ thr[t].pc = "acquire"
          /\ thr[t].lock \notin gate.held
          /\ thr' = [thr EXCEPT ![t].pc = "read"]
          /\ gate' = [gate EXCEPT !.held = gate.held \cup {thr[t].lock}]
    /\ UNCHANGED rowVars
    /\ UNCHANGED scoreVars
    /\ UNCHANGED poolVars
    /\ UNCHANGED runVars

\* lines 426-429: elapsed is computed; the thread sleeps if it is under 1 s
ReadElapsed ==
    /\ \E t \in 1..Len(thr) :
          /\ thr[t].pc = "read"
          /\ LET elapsed == gate.clock - gate.last
             IN thr' = [thr EXCEPT ![t].pc = IF elapsed < Second THEN "sleep" ELSE "write",
                                   ![t].wake = IF elapsed < Second THEN gate.clock + (Second - elapsed) ELSE 0]
    /\ UNCHANGED gate
    /\ UNCHANGED rowVars
    /\ UNCHANGED scoreVars
    /\ UNCHANGED poolVars
    /\ UNCHANGED runVars

\* time.sleep returns
WakeUp ==
    /\ \E t \in 1..Len(thr) :
          /\ thr[t].pc = "sleep"
          /\ gate.clock >= thr[t].wake
          /\ thr' = [thr EXCEPT ![t].pc = "write", ![t].wake = 0]
    /\ UNCHANGED gate
    /\ UNCHANGED rowVars
    /\ UNCHANGED scoreVars
    /\ UNCHANGED poolVars
    /\ UNCHANGED runVars

\* line 430 and the end of the with block: _last_fc_call_sync = time.time(),
\* the lock is released
WriteLast ==
    /\ \E t \in 1..Len(thr) :
          /\ thr[t].pc = "write"
          /\ thr' = [thr EXCEPT ![t].pc = "idle", ![t].lock = 0]
          /\ gate' = [gate EXCEPT !.prev = IF gate.last = 0 THEN -1 ELSE gate.last,
                                  !.last = gate.clock,
                                  !.held = gate.held \ {thr[t].lock}]
    /\ UNCHANGED rowVars
    /\ UNCHANGED scoreVars
    /\ UNCHANGED poolVars
    /\ UNCHANGED runVars

\* the module has just been imported: no lock yet, _last_fc_call_sync = 0.0,
\* and the clock is far from 0
InitGate ==
    /\ RowIdle
    /\ RunIdle
    /\ ScoreIdle
    /\ PoolIdle
    /\ pc = "gate"
    /\ gate = [NoGate EXCEPT !.clock = Second]
    /\ thr = [t \in 1..GateThreads |-> NewThread]

NextGate ==
    \/ ClockTick
    \/ CallWrapper
    \/ CheckLock
    \/ CreateLock
    \/ ReturnLock
    \/ AcquireLock
    \/ ReadElapsed
    \/ WakeUp
    \/ WriteLast

SpecGate == InitGate /\ [][NextGate]_vars

(***************************************************************************)
(* Claims                                                                  *)
(***************************************************************************)
FindPcs == {"primary", "fallback"}

\* the priority order as the specification states it
PriorityOrder ==
    SelectSeq(<<"gcs", "gpt4", "firecrawl", "gmb", "ddg">>,
              LAMBDA a : /\ (a = "gcs" => cfg.enable_google_custom_search)
                         /\ (a = "ddg" => cfg.enable_duckduckgo))

PrimaryCalls == SelectSeq(calls, LAMBDA c : c.loop = "primary")
FallbackCalls == SelectSeq(calls, LAMBDA c : c.loop = "fallback")

\* C1: every row returned by _process_single_row has a confidence_score
\* within [0, 100], whatever the adapters, the fetches and the LLM return.
C1_ScoreWithinRange ==
    /\ out.confidence_score >= 0
    /\ out.confidence_score <= 100000
    /\ scoring.score >= 0
    /\ scoring.score <= 100000

\* a returned row whose AI boost had to be clamped at 100
C1_Witness ==
    /\ pc = "done"
    /\ aiCall.made
    /\ aiCall.verified
    /\ scoring.score + 300 * aiCall.conf > 100000
    /\ out.confidence_score = 100000

\* the grade the specification assigns to a reported score
GradeOfReported(score) ==
    IF score >= 80000 THEN "High" ELSE IF score >= 50000 THEN "Medium" ELSE "Low"

\* C2: the grade is a function of the reported score (High >= 80,
\* Medium >= 50, else Low), for the pair returned by
\* _calculate_confidence_score and for the returned row.
C2_GradeFollowsReportedScore ==
    /\ scoring.made => scoring.grade = GradeOfReported(scoring.score)
    /\ pc = "done" => out.confidence_grade = GradeOfReported(out.confidence_score)

\* the stripped business id and the normalised handle of a batch row
RowBid(i) == Strip(OrEmpty(batch[i].business_id))
RowHandle(i) == Lower(Strip(OrEmpty(batch[i].instagram_handle)))

\* distinct non-empty handles over all rows sharing the business id of row i
HandlesOfBusiness(i) ==
    {RowHandle(j) : j \in {k \in 1..Len(batch) : RowBid(k) = RowBid(i)}} \ {<<>>}

ShouldFlag(i) == RowBid(i) # <<>> /\ Cardinality(HandlesOfBusiness(i)) > 1

\* C3: after add_review_flags a row is flagged iff its business id is
\* non-empty and has more than one distinct non-empty handle
\* (case-insensitive); every other row gets ""; both copies agree.
C3_ReviewFlags ==
    /\ pc \in {"flagged_extract", "flagged_both"} =>
          /\ Len(reviewE) = Len(batch)
          /\ \A i \in 1..Len(batch) :
                reviewE[i] = IF ShouldFlag(i) THEN "FLAG" ELSE ""
    /\ pc \in {"flagged_golden", "flagged_both"} =>
          /\ Len(reviewG) = Len(batch)
          /\ \A i \in 1..Len(batch) :
                reviewG[i] = IF ShouldFlag(i) THEN "FLAG" ELSE ""
    /\ pc = "flagged_both" => reviewE = reviewG

\* both copies ran on a batch where two spellings of one handle share a
\* business id with a different handle: all of that business is flagged
C3_Witness ==
    /\ pc = "flagged_both"
    /\ Len(batch) = 2
    /\ batch[1].instagram_handle = Str(<<"H", " ">>)
    /\ batch[2].instagram_handle = Str(<<"g">>)
    /\ batch[1].business_id = Str(<<"a">>)
    /\ batch[2].business_id = Str(<<"a", " ">>)
    /\ reviewE = <<"FLAG", "FLAG">>

\* C4: the strategies are invoked strictly in priority order, and once a
\* candidate passes verification it is returned and no later strategy runs.
C4_PriorityOrderShortCircuit ==
    /\ Len(PrimaryCalls) <= Len(PriorityOrder)
    /\ \A i \in 1..Len(PrimaryCalls) : PrimaryCalls[i].strategy = PriorityOrder[i]
    /\ \A i \in 1..Len(calls) :
          (calls[i].outcome = "handle" /\ calls[i].passed) =>
              /\ i = Len(calls)
              /\ pc = "returned"
              /\ handle = calls[i].found

\* the second strategy's candidate was returned while later ones were never run
C4_Witness ==
    /\ pc = "returned"
    /\ via = "primary"
    /\ handle # NoHandle
    /\ Len(calls) = 2
    /\ Len(PriorityOrder) = 5
    /\ calls[1].outcome = "none"

\* the strategy that follows call i of the log, if the discovery goes on
ExpectedAfter(i) ==
    LET c == calls[i]
        order == LoopStrategies(c.loop, cfg)
        pos == IF c.loop = "primary" THEN i ELSE i - Len(PrimaryCalls)
    IN IF pos < Len(order) THEN [loop |-> c.loop, strategy |-> order[pos + 1]]
       ELSE IF c.loop = "primary" /\ FallbackApplies(row.name)
            THEN [loop |-> "fallback", strategy |-> order[1]]
            ELSE [loop |-> "none", strategy |-> ""]

\* C5: a strategy failure never aborts discovery: no exception escapes
\* find_instagram_handle, after an exception the next strategy is the
\* one tried, every strategy is called at most once per loop (so the
\* discovery ends), and what is returned is a handle or None.
C5_FailuresNeverAbort ==
    /\ ~raised
    /\ pc # "raised"
    /\ Len(PrimaryCalls) <= Len(Strategies(cfg))
    /\ Len(FallbackCalls) <= 3
    /\ pc \in FindPcs =>
          /\ idx \in 1..Len(LoopStrategies(pc, cfg))
          /\ Len(SelectSeq(calls, LAMBDA c : c.loop = pc)) = idx - 1
    /\ \A i \in 1..Len(calls) :
          calls[i].outcome = "raise" =>
              LET e == ExpectedAfter(i)
              IN IF i < Len(calls)
                 THEN calls[i + 1].loop = e.loop /\ calls[i + 1].strategy = e.strategy
                 ELSE IF e.loop = "none"
                      THEN pc = "returned" /\ handle = NoHandle
                      ELSE pc = e.loop /\ Strategy = e.strategy
    /\ pc = "returned" => handle \in Handles \cup {NoHandle}

\* a discovery that ended although a strategy raised in each loop
C5_Witness ==
    /\ pc = "returned"
    /\ \E i \in 1..Len(calls) : calls[i].loop = "primary" /\ calls[i].outcome = "raise"
    /\ \E i \in 1..Len(calls) : calls[i].loop = "fallback" /\ calls[i].outcome = "raise"
    /\ handle # NoHandle

\* C6: in the primary pass a candidate whose page is reachable but holds
\* fewer than half of the name words, and which the LLM does not pass,
\* is discarded instead of returned.
C6_FailedCandidateDiscarded ==
    (/\ verify.made
     /\ verify.status = "200"
     /\ ~verify.halfWords
     /\ verify.ai_asked
     /\ ~verify.ai_ok
     /\ calls # <<>>
     /\ calls[Len(calls)].outcome = "handle"
     /\ calls[Len(calls)].loop = "primary")
    => ~(pc = "returned" /\ handle = calls[Len(calls)].found)

\* C7: a candidate whose profile earns 2 or more geographic red flags is
\* rejected by _calculate_confidence_score (score 0.0, grade Low),
\* whichever strategy found it.
C7_GeoConflictRejects ==
    (scoring.made /\ handle # NoHandle /\ scoring.geo >= 2) =>
        (scoring.score = 0 /\ scoring.grade = "Low")

\* C8: a candidate rejected by the enhanced verification pass is not
\* reported as found: empty handle, status not_found.
C8_RejectedNotReported ==
    (pc = "done" /\ scoring.rejected) =>
        (out.instagram_handle = NoHandle /\ out.status = "not_found")

\* status and message text of the rows a primary-path success produces
PrimarySuccessMarks == {<<"ok", "">>, <<"probable", "AI low confidence">>}

\* C9: a handle found only through the simplified-name fallback yields a
\* row whose status or message differs from a primary-path success.
C9_FallbackDistinguishable ==
    (pc = "done" /\ via = "fallback" /\ out.instagram_handle # NoHandle) =>
        <<out.status, out.message.text>> \notin PrimarySuccessMarks

\* C10: a profile fetch answering 429 never makes a candidate fail
\* verification, and earns 8 of the 15 basic-validation points.
C10_RateLimitTolerated ==
    /\ (/\ verify.made
        /\ verify.status = "429"
        /\ calls # <<>>
        /\ calls[Len(calls)].outcome = "handle") =>
           /\ verify.html_ok
           /\ pc = "returned"
           /\ handle = calls[Len(calls)].found
    /\ (scoring.made /\ scoring.basicStatus = "429") => scoring.basic = 8000

\* a candidate scored while its profile page answered 429
C10_Witness ==
    /\ pc = "ai"
    /\ handle # NoHandle
    /\ scoring.basicStatus = "429"
    /\ scoring.basic = 8000
    /\ scoring.score > 0

\* C15: the evidence bundle a row's candidate is scored with is the one that
\* row's own discovery produced: when find_instagram_handle returns a handle
\* that the Firecrawl strategy did not find for this row, the finder holds no
\* validation data for the scoring to use.
C15_EvidenceIsOwn ==
    (pc = "returned" /\ handle # NoHandle /\ calls # <<>>
     /\ calls[Len(calls)].strategy # "firecrawl")
    => vdata = NoValidationData

\* C17: when the LLM call itself errors the candidate is not blocked and
\* the returned row carries the failure reason.
C17_AiFailureRecorded ==
    (pc = "done" /\ aiCall.made /\ aiCall.kind = "error") =>
        /\ out.instagram_handle = handle
        /\ out.status = "ok"
        /\ out.message.reason = "AI verify skipped"

\* the blended score as the specification states it
BlendOf(base, c, agrees) ==
    IF agrees THEN Min(100000, base + 300 * c)
    ELSE Max(0, base - 300 * (100 - c))

\* C20: the row's score is min(100, base + 30c) when the LLM agrees and
\* max(0, base - 30(1 - c)) when it disagrees, so for a disagreeing LLM a
\* lower confidence never gives a higher score.
C20_AiBlending ==
    (pc = "done" /\ aiCall.made) =>
        /\ out.confidence_score = BlendOf(scoring.score, aiCall.conf, aiCall.verified)
        /\ ~aiCall.verified =>
              \A c \in ConfVals :
                  c < aiCall.conf =>
                      IncorporateAiConfidence(scoring.score, c, FALSE)
                          <= out.confidence_score

\* C16: with the fetch responses held fixed, two calls of
\* _calculate_confidence_score with the same arguments on the same finder
\* return the same (score, grade), whatever Firecrawl searches the finder
\* made before or between them.
C16_RescoringIdempotent ==
    (pc = "rescore" /\ Len(res) = 2) => res[1] = res[2]

\* the rejection rule as the specification states it, on the red flags of the
\* pages and the adjustment the call reports
RejectedByRule(i, r) ==
    LET geo == CheckGeographicContent(i.geo, i.city)
        bio == CheckBioContent(i.bio, i.name)
    IN \/ geo + bio >= 3
       \/ geo >= 2
       \/ i.base + r.confidence_adjustment < 40000
       \/ (i.base < 65000 /\ geo + bio >= 2)

\* C19: _enhanced_verification returns verified = False exactly when
\* total red flags >= 3, or geographic red flags >= 2, or base plus
\* adjustment < 40, or base < 65 with total red flags >= 2.
C19_RejectionRule ==
    (pc = "verify" /\ res # <<>>) =>
        (res[1].verified <=> ~RejectedByRule(inp, res[1]))

\* a candidate with base 95 and no bio flags rejected for geography alone
C19_Witness ==
    /\ pc = "verify"
    /\ res # <<>>
    /\ inp.base = 95000
    /\ res[1].geo = 2
    /\ res[1].bio = 0
    /\ inp.base + res[1].confidence_adjustment >= 40000
    /\ ~res[1].verified

\* C13: no task begins executing while a cooldown set by a rate-limit
\* signal is still active.
C13_NoStartDuringCooldown ==
    \A i \in 1..Len(task) : ~task[i].hot

\* C14: a cooldown deadline never moves to an earlier time than the value
\* it already holds.
C14_DeadlinesMonotonic ==
    [][/\ cooldown'.openai >= cooldown.openai
       /\ cooldown'.firecrawl >= cooldown.firecrawl]_vars

\* C18: every non-empty handle an adapter returns is normalized: it consists
\* only of characters from [a-zA-Z0-9._].
C18_HandleNormalized ==
    (pc = "extract_handle" /\ res # <<>> /\ res[1] # NoHandle)
        => \A k \in 1..Len(res[1]) : res[1][k] \in HandleChars

Raises(o) == o \in {"raise_find", "raise_strip", "raise_print"}

RowsFor(k) == {j \in 1..Len(results) : results[j].row = k}

\* C11: a batch run returns exactly one result row per input row; a row
\* whose processing raises yields a row with status error and an empty
\* handle, and every other row has the result of its own processing,
\* whatever its siblings did and in whatever order the futures complete.
C11_BatchIsolation ==
    /\ \A k \in 1..Len(work) : Cardinality(RowsFor(k)) = (IF work[k].st = "collected" THEN 1 ELSE 0)
    /\ \A j \in 1..Len(results) :
          LET o == work[results[j].row].outcome
          IN /\ Raises(o) => results[j].status = "error" /\ results[j].instagram_handle = ""
             /\ o = "ok" => results[j] = FoundRow(results[j].row)
             /\ o = "not_found" => results[j] = NotFoundRow(results[j].row)
    /\ run.pc = "returned" => Len(results) = Len(work)

C11_Witness ==
    /\ run.runner = "bulk"
    /\ run.pc = "returned"
    /\ Len(work) = 2
    /\ work[1].outcome = "raise_strip"
    /\ work[2].outcome = "ok"
    /\ results = <<ErrorRow(1), FoundRow(2)>>

StoredRows == {stored.jsonl[j].row : j \in 1..Len(stored.jsonl)} \cup {stored.latest[j].row : j \in 1..Len(stored.latest)}

\* C12: when process_dataset_extract, run with a JSONL stream and snapshot
\* paths, exits on a KeyboardInterrupt, every row whose processing had
\* completed when the interrupt arrived is in the JSONL stream or in the
\* latest snapshot.
C12_CompletedResultsStored ==
    (run.pc = "interrupted" /\ run.jsonl_path /\ run.latest_path)
        => run.done_at_interrupt \subseteq StoredRows

\* C21: the status bonus in the score reflects the final status of the row:
\* a row returned with status probable was scored with the status probable
\* (bonus 5) and a row returned with status ok with the status ok (bonus 10).
C21_BonusOfFinalStatus ==
    (pc = "done" /\ out.status \in {"ok", "probable"})
        => /\ scoring.status = out.status
           /\ StatusBonus(scoring.status) = (IF out.status = "ok" THEN 10000 ELSE 5000)

\* 1 when the signal was detected, 0 otherwise
Signal(b) == IF b THEN 1 ELSE 0

\* C22: red flags only ever reduce the score: the confidence_adjustment of
\* _enhanced_verification is never positive, each detected signal (low
\* confidence, weak location, each geographic flag, each bio flag, suspicious
\* pattern) lowers it by a fixed positive amount, and the score after the
\* enhanced pass is at most the base score and within [0, 100].
C22_RedFlagsOnlyReduce ==
    (pc = "verify" /\ res # <<>>) =>
        LET ev == res[1]
            after == AdjustedConfidence(inp.base, ev)
        IN /\ ev.confidence_adjustment <= 0
           /\ ev.geo >= 0 /\ ev.bio >= 0
           /\ ev.confidence_adjustment =
                 0 - ( 15000 * Signal(inp.base < 70000)
                       + 10000 * Signal(CalculateLocationStrength(inp.vd) < 2)
                       + 15000 * ev.geo
                       + 10000 * ev.bio
                       + 10000 * Signal(AnalyzeHandlePattern(inp.handle, inp.name) < 200) )
           /\ after <= inp.base
           /\ after >= 0 /\ after <= 100000

C22_Witness ==
    /\ pc = "verify" /\ res # <<>>
    /\ inp.base = 30000
    /\ res[1].geo = 3
    /\ res[1].bio = 2
    /\ inp.base + res[1].confidence_adjustment < 0
    /\ AdjustedConfidence(inp.base, res[1]) = 0

\* C23: a profile that mentions the target's own city and no other city of the
\* conflict list gets no conflicting-city red flags from
\* _check_geographic_content.
C23_OwnCityIsNoConflict ==
    (pc = "verify" /\ res # <<>> /\ inp.geo.status = "200" /\ inp.geo.mentions = {inp.city})
        => res[1].geo < 2

\* the same call for a profile that differs only in that its bio contains a
\* significant address word
WithAddressWord(i) == EnhancedVerificationCall([i EXCEPT !.bio.addrMiss = FALSE])

\* C24: of two profiles equal in name overlap and food-keyword presence, the
\* one whose bio contains no significant address word gets a strictly larger
\* penalty (more bio red flags or a lower adjustment) than the one whose bio
\* contains one.
C24_AddressAbsencePenalized ==
    (pc = "verify" /\ res # <<>> /\ inp.bio.status = "200" /\ inp.bio.bio /\ inp.bio.addrMiss)
        => \/ res[1].bio > WithAddressWord(inp).bio
           \/ res[1].confidence_adjustment < WithAddressWord(inp).confidence_adjustment

CallsOf(a) == SelectSeq(calls, LAMBDA c : c.strategy = a)

\* C25: the simplified-name fallback runs only after every enabled strategy
\* was tried once with the original name without an accepted candidate, and
\* only if stripping the parenthetical changes the name and leaves more than
\* 3 characters; it invokes only the first three strategies of the priority
\* list, in order, with the simplified name, and stops at the first accepted
\* candidate.  No strategy is invoked more than twice, none twice with the
\* same name.
C25_FallbackDiscipline ==
    /\ (pc = "fallback" \/ FallbackCalls # <<>>) =>
          /\ Len(PrimaryCalls) = Len(PriorityOrder)
          /\ \A i \in 1..Len(PrimaryCalls) :
                /\ PrimaryCalls[i].strategy = PriorityOrder[i]
                /\ PrimaryCalls[i].name = row.name
                /\ ~(PrimaryCalls[i].outcome = "handle" /\ PrimaryCalls[i].passed)
          /\ SimpleName(row.name) # row.name
          /\ Len(SimpleName(row.name)) > 3
    /\ Len(FallbackCalls) <= 3
    /\ \A i \in 1..Len(FallbackCalls) :
          /\ FallbackCalls[i].strategy = PriorityOrder[i]
          /\ FallbackCalls[i].name = SimpleName(row.name)
          /\ (FallbackCalls[i].outcome = "handle" /\ FallbackCalls[i].passed)
                => (i = Len(FallbackCalls) /\ pc = "returned" /\ handle = FallbackCalls[i].found)
    /\ \A i, j \in 1..Len(calls) :
          /\ (i < j /\ calls[i].loop = "fallback") => calls[j].loop = "fallback"
          /\ (i # j /\ calls[i].strategy = calls[j].strategy) => calls[i].name # calls[j].name
    /\ \A a \in {"gcs", "gpt4", "firecrawl", "gmb", "ddg"} : Len(CallsOf(a)) <= 2

\* the third fallback strategy's candidate was returned after all five
\* strategies had failed with the original name
C25_Witness ==
    /\ pc = "returned"
    /\ via = "fallback"
    /\ handle # NoHandle
    /\ Len(PrimaryCalls) = 5
    /\ Len(FallbackCalls) = 3
    /\ Len(CallsOf("firecrawl")) = 2

\* threads that have been handed a lock by _get_fc_thread_lock
WithLock == {t \in 1..Len(thr) : thr[t].pc \in {"acquire", "read", "sleep", "write"}}

\* C26: under every interleaving all threads use one and the same lock, at
\* most one thread is inside the gate at a time, and successive values
\* written to _last_fc_call_sync are at least 1 second apart.
C26_RateGate ==
    /\ \A t, u \in WithLock : thr[t].lock = thr[u].lock
    /\ Cardinality(InGate) <= 1
    /\ gate.prev # -1 => gate.last - gate.prev >= Second

\* C27: with AI verification enabled, a row has status ok with a non-empty
\* handle only if the LLM check made in _process_single_row returned
\* verified = true; a candidate the LLM did not verify is reported as
\* probable with a message.
C27_OkOnlyIfAiVerified ==
    (pc = "done" /\ cfg.use_ai /\ out.instagram_handle # NoHandle) =>
        /\ out.status = "ok" => (aiCall.made /\ aiCall.verified)
        /\ (aiCall.made /\ ~aiCall.verified) => (out.status = "probable" /\ out.message # NoMessage)

\* C28: with AI verification enabled, every handle returned by
\* find_instagram_handle, from the primary pass or from the simplified-name
\* fallback, was submitted to _ai_verify_handle before being returned.
C28_ReturnedHandleAiChecked ==
    (pc = "returned" /\ cfg.use_ai /\ handle # NoHandle) =>
        (verify.made /\ verify.ai_asked)

\* C30: when the LLM call made in _process_single_row errors and
\* _ai_verify_handle soft-passes, the confidence_score of the row is not
\* greater than the score computed by _calculate_confidence_score.
C30_AiFailureDoesNotRaiseScore ==
    (pc = "done" /\ aiCall.made /\ aiCall.kind = "error") =>
        out.confidence_score <= scoring.score

====
